---- MODULE Spec2Model ----
(***************************************************************************)
(* Model of the two concurrent mechanisms of the LLM observability         *)
(* backend:                                                                *)
(*   - MetricsService (backend/app/services/metrics_service.py): a bounded *)
(*     asyncio.Queue fed by request handlers and drained by one background *)
(*     worker task that writes batches to PostgreSQL;                      *)
(*   - RedisService.check_rate_limit                                       *)
(*     (backend/app/services/redis_service.py): a fixed-window rate        *)
(*     limiter over Redis counters.                                        *)
(* Everything runs on one asyncio event loop: a coroutine runs atomically  *)
(* from one suspending await to the next, so every action below is the     *)
(* code between two suspension points.                                     *)
(***************************************************************************)
EXTENDS Integers, Sequences, FiniteSets, TLC

\* ---------------------------------------------------------------- bounds
\* settings.METRICS_QUEUE_SIZE, METRICS_BATCH_SIZE, METRICS_FLUSH_INTERVAL
\* (config.py 51-53), scaled down; the timeout of wait_for (1.0 s) is one tick.
METRICS_QUEUE_SIZE == 2
METRICS_BATCH_SIZE == 2
METRICS_FLUSH_INTERVAL == 2
PollTimeout == 1
\* number of telemetry events ever created, number of concurrent producers
MaxEvents == 4
NumProducers == 2
\* number of worker tasks start() may create
MaxTasks == 2
\* events created in the runs with free start() and stop()
MaxEventsFree == 3
\* chat_completion calls made in all
MaxRequests == 3
\* last reading of the pipeline's clock; the clock stays there afterwards
MaxTime == 5

\* settings.RATE_LIMIT_PER_MINUTE, RATE_LIMIT_PER_HOUR (config.py 47-48)
RATE_LIMIT_PER_MINUTE == 60
RATE_LIMIT_PER_HOUR == 1000
\* the clock of the limiter: ticks in a minute, minutes in an hour, last tick
TicksPerMinute == 2
MinutesPerHour == 2
MaxClock == 3
\* concurrent callers of check_rate_limit and the calls they make in all; the
\* calls of the single sequential caller
NumCallers == 2
MaxCalls == 4
MaxCallsSeq == 62

TicksPerHour == TicksPerMinute * MinutesPerHour
Callers == 1..NumCallers
MinuteBuckets == 0..(MaxClock \div TicksPerMinute)
HourBuckets == 0..(MaxClock \div TicksPerHour)
\* (user_id, endpoint) pairs given to check_rate_limit: X-User-ID is any string
\* the client sends, the endpoint any URL path
UserIds == {"amit", "amit:/v1"}
Endpoints == {"/chat", "/v1:/chat"}
Pairs == UserIds \X Endpoints
\* the pair of the runs in which every call is for the same subject and endpoint
DefaultSubject == <<"amit", "/chat">>
\* lines 112-113: f"rate_limit:{user_id}:{endpoint}:minute:{now.strftime(...)}"
Key(pair, granularity, bucket) ==
    "rate_limit:" \o pair[1] \o ":" \o pair[2] \o ":" \o granularity \o ":"
        \o ToString(bucket)
Keys == {Key(pr, "minute", b) : pr \in Pairs, b \in MinuteBuckets}
          \cup {Key(pr, "hour", b) : pr \in Pairs, b \in HourBuckets}
\* the value None of an Optional[int] argument that is not given (lines 96-97);
\* the ceilings that are given are never negative
None == -1
\* (limit_per_minute, limit_per_hour) given to check_rate_limit
ConcLimits == {<<1, None>>, <<2, 3>>, <<None, 2>>}
SeqLimits == {<<1, None>>, <<3, None>>, <<None, None>>, <<2, 3>>, <<2, 2>>, <<0, 0>>}

Producers == 1..NumProducers
Events == 1..MaxEvents
Tasks == 1..MaxTasks
\* flusher 0 is stop()'s _flush_queue; flusher w > 0 is worker task w
StopFlusher == 0
Flushers == 0..MaxTasks

VARIABLES
    \* ---- MetricsService
    metrics_queue,   \* asyncio.Queue contents, head first
    putters,         \* asyncio.Queue._putters: producers suspended in put()
    running,         \* self.running
    worker_task,     \* self.worker_task: a task id, 0 for None
    wpc,             \* position of each worker task in _process_metrics
    batch,           \* the local list `batch` of each flusher
    since_flush,     \* utcnow() - last_flush of each worker, capped at the interval
    waited,          \* time a worker has spent in wait_for(get(), timeout=1.0)
    tx,              \* rows executed in the open transaction of each flusher
    ppc,             \* position of each producer in log_metric
    pending,         \* the metric a producer is putting (0: none)
    next_event,      \* the next MetricsCreate object handed to log_metric
    lpc,             \* position of the lifespan task (main.py) in start()/stop()
    awaited,         \* the task stop() awaits (0: none)
    \* ---- the sink and the history of the run
    persisted,       \* rows committed to llm_metrics, in commit order
    accepted,        \* events for which log_metric returned True
    flush_log,       \* every call of _flush_batch: who, why, which events
    accepted_at_stop,\* `accepted` at the moment stop() was called
    enqueued,        \* every completed put(): the event, its producer, the time
    now,             \* the clock of the timed runs, in seconds since construction
    cycle_flushes,   \* the triggers that fired in the current iteration of each worker's loop
    \* ---- RedisService and its Redis server
    redis_up,        \* self.redis is not None (connect() succeeded)
    store_ok,        \* the Redis server answers; otherwise every command raises
    store,           \* counter value of each rate-limit key, 0 when the key is absent
    ttl,             \* remaining time to live of each key, 0 when it has no expiry
    clock,           \* utcnow(), in ticks
    cpc,             \* position of each caller in check_rate_limit
    ckeys,           \* minute_key and hour_key of the call (their window buckets)
    counts,          \* the locals minute_count and hour_count of the call
    limits,          \* the arguments limit_per_minute, limit_per_hour
    subject,         \* the arguments user_id and endpoint of each caller's calls
    calls,           \* number of check_rate_limit calls made so far
    \* ---- history of the limiter
    call_failed,     \* a Redis command of the call raised, or there is no client
    call_writes,     \* Redis commands of the call that changed the store
    result,          \* what the last call of each caller returned
    admitted,        \* number of admitted calls per minute and hour window
    window_results,  \* results returned for the latest minute window, in order
    \* ---- the HTTP requests
    req,             \* the request each caller has in RateLimitMiddleware.dispatch
    \* ---- GroqService
    chat,            \* the chat_completion call each request task is in
    next_request,    \* the next value of uuid.uuid4()
    handed           \* every metric handed to log_metric by chat_completion

mvars == <<metrics_queue, putters, running, worker_task, wpc, batch, since_flush,
           waited, tx, ppc, pending, next_event, lpc, awaited, persisted,
           accepted, flush_log, accepted_at_stop, enqueued, now, cycle_flushes>>

rvars == <<redis_up, store_ok, store, ttl, clock, cpc, ckeys, counts, limits, subject, calls,
           call_failed, call_writes, result, admitted, window_results>>

cvars == <<chat, next_request, handed>>

vars == <<mvars, rvars, req, cvars>>

\* ------------------------------------------------------------- helpers
Range(s) == {s[i] : i \in DOMAIN s}

Min(a, b) == IF a < b THEN a ELSE b

\* a queue that calls itself full one event too late
QueueOverfull == Len(metrics_queue) > METRICS_QUEUE_SIZE

\* asyncio.Queue.full()
QueueFull == Len(metrics_queue) >= METRICS_QUEUE_SIZE

\* asyncio.Queue._wakeup_next(self._putters), once per get_nowait: the first n
\* suspended producers are resumed; each re-checks full() when it next runs
WakePutters(n) ==
    LET k == Min(n, Len(putters))
        woken == {putters[i] : i \in 1..k}
    IN /\ putters' = SubSeq(putters, k + 1, Len(putters))
       /\ ppc' = [p \in Producers |-> IF p \in woken THEN "woken" ELSE ppc[p]]

\* the number of calls of _flush_batch an event has been part of
Attempts(e) == Cardinality({i \in DOMAIN flush_log : e \in Range(flush_log[i].events)})

InFlush(f) ==
    IF f = StopFlusher THEN lpc = "stop_flush"
    ELSE wpc[f] \in {"flush_time", "flush_size", "flush_final"}

\* entering _flush_batch(b) with a non-empty b (every caller tests `if batch`)
BeginFlush(f, kind, b) ==
    flush_log' = Append(flush_log,
        [by |-> f, kind |-> kind, events |-> b, result |-> "pending", at |-> now])

\* the call of _flush_batch that flusher f is in
CurrentFlush(f) ==
    CHOOSE i \in DOMAIN flush_log :
        flush_log[i].by = f /\ flush_log[i].result = "pending"

\* lines 180 and 183: the outcome of a flush is logged
EndFlush(f, res) ==
    flush_log' = [flush_log EXCEPT ![CurrentFlush(f)].result = res]

\* events of the batches whose flush failed
Discarded ==
    UNION {Range(flush_log[i].events) :
             i \in {j \in DOMAIN flush_log : flush_log[j].result = "failed"}}

\* ------------------------------------------------------ MetricsService
InitMetrics ==
    /\ metrics_queue = <<>>
    /\ putters = <<>>
    /\ running = FALSE
    /\ worker_task = 0
    /\ wpc = [w \in Tasks |-> "none"]
    /\ batch = [f \in Flushers |-> <<>>]
    /\ since_flush = [w \in Tasks |-> 0]
    /\ waited = [w \in Tasks |-> 0]
    /\ tx = [f \in Flushers |-> 0]
    /\ ppc = [p \in Producers |-> "idle"]
    /\ pending = [p \in Producers |-> 0]
    /\ next_event = 1
    /\ lpc = "startup"
    /\ awaited = 0
    /\ persisted = <<>>
    /\ accepted = {}
    /\ flush_log = <<>>
    /\ accepted_at_stop = {}
    /\ enqueued = <<>>
    /\ now = 0
    /\ cycle_flushes = [w \in Tasks |-> {}]

\* the queue takes event e from producer p: put() has completed
Enqueue(p, e) ==
    /\ metrics_queue' = Append(metrics_queue, e)
    /\ accepted' = accepted \cup {e}
    /\ enqueued' = Append(enqueued, [event |-> e, by |-> p, at |-> now])

\* a queue that hands out the newest event first
log_metric_front(p) ==
    /\ ppc[p] = "idle"
    /\ next_event <= MaxEvents
    /\ next_event' = next_event + 1
    /\ IF QueueFull
       THEN /\ putters' = Append(putters, p)
            /\ ppc' = [ppc EXCEPT ![p] = "blocked"]
            /\ pending' = [pending EXCEPT ![p] = next_event]
            /\ UNCHANGED <<metrics_queue, accepted, enqueued>>
       ELSE /\ metrics_queue' = <<next_event>> \o metrics_queue
            /\ accepted' = accepted \cup {next_event}
            /\ enqueued' = Append(enqueued, [event |-> next_event, by |-> p, at |-> now])
            /\ UNCHANGED <<putters, ppc, pending>>

\* log_metric, lines 51-58: `await self.metrics_queue.put(metric)`.  put() appends
\* when the queue has room and otherwise suspends the caller on a future in
\* _putters; asyncio.QueueFull is raised by put_nowait only, so the except
\* branch (return False) is never taken.
log_metric(p) ==
    /\ ppc[p] = "idle"
    /\ next_event <= MaxEvents
    /\ next_event' = next_event + 1
    /\ IF QueueFull
       THEN /\ putters' = Append(putters, p)
            /\ ppc' = [ppc EXCEPT ![p] = "blocked"]
            /\ pending' = [pending EXCEPT ![p] = next_event]
            /\ UNCHANGED <<metrics_queue, accepted, enqueued>>
       ELSE /\ Enqueue(p, next_event)
            /\ UNCHANGED <<putters, ppc, pending>>

\* put() resumed after a get freed a slot: `while self.full()` is tested again
put_resume(p) ==
    /\ ppc[p] = "woken"
    /\ IF QueueFull
       THEN /\ putters' = Append(putters, p)
            /\ ppc' = [ppc EXCEPT ![p] = "blocked"]
            /\ UNCHANGED <<metrics_queue, accepted, enqueued, pending>>
       ELSE /\ Enqueue(p, pending[p])
            /\ ppc' = [ppc EXCEPT ![p] = "idle"]
            /\ pending' = [pending EXCEPT ![p] = 0]
            /\ UNCHANGED putters

\* start(), lines 34-39
start ==
    IF ~running
    THEN /\ \E w \in Tasks :
              /\ wpc[w] = "none"
              /\ \A v \in Tasks : v < w => wpc[v] # "none"
              /\ worker_task' = w
              /\ wpc' = [wpc EXCEPT ![w] = "created"]
         /\ running' = TRUE
    ELSE UNCHANGED <<running, worker_task, wpc>>

\* stop() that forgets the queue: returns without draining it
flush_queue_skipped ==
    /\ lpc' = "stopped"
    /\ UNCHANGED <<metrics_queue, putters, ppc, batch, flush_log>>

\* _flush_queue, lines 186-197, up to the await of _flush_batch: the queue is
\* drained with get_nowait in one run of the event loop
flush_queue ==
    LET b == metrics_queue
    IN /\ metrics_queue' = <<>>
       /\ WakePutters(Len(b))
       /\ IF b # <<>>
          THEN /\ batch' = [batch EXCEPT ![StopFlusher] = b]
               /\ BeginFlush(StopFlusher, "drain", b)
               /\ lpc' = "stop_flush"
          ELSE /\ lpc' = "stopped"
               /\ UNCHANGED <<batch, flush_log>>

\* a stop() that does not wait for the worker before it drains the queue
stop_unawaited ==
    /\ accepted_at_stop' = accepted
    /\ UNCHANGED awaited
    /\ IF running
       THEN running' = FALSE /\ flush_queue
       ELSE /\ lpc' = "stopped"
            /\ UNCHANGED <<running, metrics_queue, putters, ppc, batch, flush_log>>

\* stop(), lines 41-46: up to `await self.worker_task`
stop ==
    /\ accepted_at_stop' = accepted
    /\ IF running
       THEN /\ running' = FALSE
            /\ IF worker_task # 0 /\ wpc[worker_task] # "done"
               THEN /\ awaited' = worker_task
                    /\ lpc' = "await_worker"
                    /\ UNCHANGED <<metrics_queue, putters, ppc, batch, flush_log>>
               ELSE /\ flush_queue
                    /\ UNCHANGED awaited
       ELSE /\ lpc' = "stopped"
            /\ UNCHANGED <<running, awaited, metrics_queue, putters, ppc, batch, flush_log>>

\* stop(), lines 46-48: the awaited worker has finished
stop_resume ==
    /\ lpc = "await_worker"
    /\ wpc[awaited] = "done"
    /\ awaited' = 0
    /\ flush_queue

\* _process_metrics, lines 99-100 (first run of the task) and the loop test of
\* line 102 with the time test of lines 105-106
WorkerBatch(w) == IF wpc[w] = "created" THEN <<>> ELSE batch[w]

WorkerSince(w) == IF wpc[w] = "created" THEN 0 ELSE since_flush[w]

AtLoopTop(w) == wpc[w] \in {"created", "loop"}

\* a time test that never succeeds
TimeTriggerOff(w) == FALSE /\ WorkerBatch(w) # <<>>

\* a time test that succeeds one second early
TimeTriggerEarly(w) ==
    WorkerSince(w) >= METRICS_FLUSH_INTERVAL - 1 /\ WorkerBatch(w) # <<>>

TimeTrigger(w) ==
    WorkerSince(w) >= METRICS_FLUSH_INTERVAL /\ WorkerBatch(w) # <<>>

\* a worker that is cancelled by the shutdown signal wherever it stands
worker_exit_cancelled(w) ==
    /\ AtLoopTop(w) \/ wpc[w] \in {"flush_time", "flush_size"}
    /\ ~running
    /\ wpc' = [wpc EXCEPT ![w] = "done"]
    /\ UNCHANGED <<batch, since_flush, flush_log>>

\* a worker that never tests self.running
worker_exit_off(w) ==
    /\ FALSE
    /\ UNCHANGED <<batch, since_flush, wpc, flush_log>>

\* lines 102, 132-136: the loop ends, the remaining batch is flushed
worker_exit(w) ==
    /\ AtLoopTop(w)
    /\ ~running
    /\ batch' = [batch EXCEPT ![w] = WorkerBatch(w)]
    /\ since_flush' = [since_flush EXCEPT ![w] = WorkerSince(w)]
    /\ IF WorkerBatch(w) # <<>>
       THEN /\ wpc' = [wpc EXCEPT ![w] = "flush_final"]
            /\ BeginFlush(w, "final", WorkerBatch(w))
       ELSE /\ wpc' = [wpc EXCEPT ![w] = "done"]
            /\ UNCHANGED flush_log

\* lines 105-107: the time trigger
worker_time_flush(w) ==
    /\ AtLoopTop(w)
    /\ running
    /\ TimeTrigger(w)
    /\ wpc' = [wpc EXCEPT ![w] = "flush_time"]
    /\ BeginFlush(w, "time", WorkerBatch(w))
    /\ cycle_flushes' = [cycle_flushes EXCEPT ![w] = {"time"}]
    /\ UNCHANGED <<batch, since_flush>>

\* lines 105-116 without a time flush: on to wait_for(get(), timeout=1.0)
worker_wait(w) ==
    /\ AtLoopTop(w)
    /\ running
    /\ ~TimeTrigger(w)
    /\ batch' = [batch EXCEPT ![w] = WorkerBatch(w)]
    /\ since_flush' = [since_flush EXCEPT ![w] = WorkerSince(w)]
    /\ wpc' = [wpc EXCEPT ![w] = "get"]
    /\ waited' = [waited EXCEPT ![w] = 0]

\* a get() that leaves the metric at the head of the queue
worker_get_peek(w) ==
    /\ wpc[w] = "get"
    /\ metrics_queue # <<>>
    /\ LET b == Append(batch[w], Head(metrics_queue))
       IN /\ UNCHANGED <<metrics_queue, putters, ppc>>
          /\ batch' = [batch EXCEPT ![w] = b]
          /\ IF Len(b) >= METRICS_BATCH_SIZE
             THEN /\ wpc' = [wpc EXCEPT ![w] = "flush_size"]
                  /\ BeginFlush(w, "size", b)
                  /\ cycle_flushes' = [cycle_flushes EXCEPT ![w] = @ \cup {"size"}]
             ELSE /\ wpc' = [wpc EXCEPT ![w] = "loop"]
                  /\ cycle_flushes' = [cycle_flushes EXCEPT ![w] = {}]
                  /\ UNCHANGED flush_log

\* a worker without the size trigger
worker_get_no_size(w) ==
    /\ wpc[w] = "get"
    /\ metrics_queue # <<>>
    /\ metrics_queue' = Tail(metrics_queue)
    /\ WakePutters(1)
    /\ batch' = [batch EXCEPT ![w] = Append(batch[w], Head(metrics_queue))]
    /\ wpc' = [wpc EXCEPT ![w] = "loop"]
    /\ cycle_flushes' = [cycle_flushes EXCEPT ![w] = {}]
    /\ UNCHANGED flush_log

\* lines 113-123: get() returns a metric; the size trigger
worker_get(w) ==
    /\ wpc[w] = "get"
    /\ metrics_queue # <<>>
    /\ LET b == Append(batch[w], Head(metrics_queue))
       IN /\ metrics_queue' = Tail(metrics_queue)
          /\ WakePutters(1)
          /\ batch' = [batch EXCEPT ![w] = b]
          /\ IF Len(b) >= METRICS_BATCH_SIZE
             THEN /\ wpc' = [wpc EXCEPT ![w] = "flush_size"]
                  /\ BeginFlush(w, "size", b)
                  /\ cycle_flushes' = [cycle_flushes EXCEPT ![w] = @ \cup {"size"}]
             ELSE /\ wpc' = [wpc EXCEPT ![w] = "loop"]
                  /\ cycle_flushes' = [cycle_flushes EXCEPT ![w] = {}]
                  /\ UNCHANGED flush_log

\* lines 125-126: asyncio.TimeoutError, continue
worker_timeout(w) ==
    /\ wpc[w] = "get"
    /\ waited[w] >= PollTimeout
    /\ wpc' = [wpc EXCEPT ![w] = "loop"]
    /\ cycle_flushes' = [cycle_flushes EXCEPT ![w] = {}]

\* a worker that keeps its batch after a time-triggered flush
AfterFlushKeepsBatch(f) ==
    /\ tx' = [tx EXCEPT ![f] = 0]
    /\ cycle_flushes' = IF f \in Tasks /\ wpc[f] # "flush_time"
                        THEN [cycle_flushes EXCEPT ![f] = {}]
                        ELSE cycle_flushes
    /\ batch' = IF f \in Tasks /\ wpc[f] = "flush_time"
                THEN batch
                ELSE [batch EXCEPT ![f] = <<>>]
    /\ IF f = StopFlusher
       THEN /\ lpc' = "stopped"
            /\ UNCHANGED <<wpc, since_flush, waited>>
       ELSE /\ UNCHANGED lpc
            /\ CASE wpc[f] = "flush_time" ->
                      /\ wpc' = [wpc EXCEPT ![f] = "get"]
                      /\ since_flush' = [since_flush EXCEPT ![f] = 0]
                      /\ waited' = [waited EXCEPT ![f] = 0]
                 [] wpc[f] = "flush_size" ->
                      /\ wpc' = [wpc EXCEPT ![f] = "loop"]
                      /\ since_flush' = [since_flush EXCEPT ![f] = 0]
                      /\ UNCHANGED waited
                 [] OTHER ->
                      /\ wpc' = [wpc EXCEPT ![f] = "done"]
                      /\ UNCHANGED <<since_flush, waited>>

\* what follows `await self._flush_batch(batch)` at each of its four call sites:
\* lines 108-109, 122-123, 134-136 and 197 with 49
AfterFlush(f) ==
    /\ tx' = [tx EXCEPT ![f] = 0]
    /\ cycle_flushes' = IF f \in Tasks /\ wpc[f] # "flush_time"
                        THEN [cycle_flushes EXCEPT ![f] = {}]
                        ELSE cycle_flushes
    /\ batch' = [batch EXCEPT ![f] = <<>>]
    /\ IF f = StopFlusher
       THEN /\ lpc' = "stopped"
            /\ UNCHANGED <<wpc, since_flush, waited>>
       ELSE /\ UNCHANGED lpc
            /\ CASE wpc[f] = "flush_time" ->
                      /\ wpc' = [wpc EXCEPT ![f] = "get"]
                      /\ since_flush' = [since_flush EXCEPT ![f] = 0]
                      /\ waited' = [waited EXCEPT ![f] = 0]
                 [] wpc[f] = "flush_size" ->
                      /\ wpc' = [wpc EXCEPT ![f] = "loop"]
                      /\ since_flush' = [since_flush EXCEPT ![f] = 0]
                      /\ UNCHANGED waited
                 [] OTHER ->
                      /\ wpc' = [wpc EXCEPT ![f] = "done"]
                      /\ UNCHANGED <<since_flush, waited>>

\* _flush_batch, lines 157-178: one conn.execute inside the transaction
flush_execute(f) ==
    /\ InFlush(f)
    /\ tx[f] < Len(batch[f])
    /\ tx' = [tx EXCEPT ![f] = tx[f] + 1]

\* _flush_batch, lines 155-180: the transaction block ends and commits
flush_commit(f) ==
    /\ InFlush(f)
    /\ tx[f] = Len(batch[f])
    /\ persisted' = persisted \o batch[f]
    /\ EndFlush(f, "ok")
    /\ AfterFlush(f)

\* a failed flush that keeps the batch for a retry in the next loop cycle
flush_fail_keeps_batch(f) ==
    /\ InFlush(f)
    /\ UNCHANGED <<persisted, batch, since_flush, waited>>
    /\ cycle_flushes' = IF f \in Tasks
                        THEN [cycle_flushes EXCEPT ![f] = {}]
                        ELSE cycle_flushes
    /\ EndFlush(f, "failed")
    /\ tx' = [tx EXCEPT ![f] = 0]
    /\ IF f = StopFlusher
       THEN lpc' = "stopped" /\ UNCHANGED wpc
       ELSE /\ UNCHANGED lpc
            /\ wpc' = [wpc EXCEPT ![f] = IF wpc[f] = "flush_final" THEN "done" ELSE "loop"]

\* a sink without a transaction: the rows executed before the failure stay
flush_fail_partial(f) ==
    /\ InFlush(f)
    /\ persisted' = persisted \o SubSeq(batch[f], 1, tx[f])
    /\ EndFlush(f, "failed")
    /\ AfterFlush(f)

\* _flush_batch, lines 182-184: acquire, an execute or the commit raises; the
\* transaction rolls back, the error is logged, the batch is not kept
flush_fail(f) ==
    /\ InFlush(f)
    /\ UNCHANGED persisted
    /\ EndFlush(f, "failed")
    /\ AfterFlush(f)

\* a task that the event loop can run now (its await has completed)
Ready ==
    \/ \E w \in Tasks : AtLoopTop(w)
    \/ \E w \in Tasks : wpc[w] = "get" /\ (metrics_queue # <<>> \/ waited[w] >= PollTimeout)
    \/ \E p \in Producers : ppc[p] = "woken"
    \/ lpc = "await_worker" /\ wpc[awaited] = "done"

\* one second passes; the event loop sleeps only when no task is ready
tick ==
    /\ ~Ready
    /\ since_flush' = [w \in Tasks |->
            IF wpc[w] \in {"none", "done"} THEN since_flush[w]
            ELSE Min(since_flush[w] + 1, METRICS_FLUSH_INTERVAL)]
    /\ waited' = [w \in Tasks |->
            IF wpc[w] = "get" THEN Min(waited[w] + 1, PollTimeout) ELSE waited[w]]

\* ------------------------------------------- the service under main.py
\* lifespan (main.py 42, 58) calls start() once at startup and stop() once at
\* shutdown; request handlers call log_metric while the application serves
LifespanStart ==
    /\ lpc = "startup"
    /\ start
    /\ lpc' = "serving"
    /\ UNCHANGED <<cycle_flushes, enqueued, now, metrics_queue, putters, batch, since_flush, waited, tx, ppc,
                   pending, next_event, awaited, persisted, accepted,
                   flush_log, accepted_at_stop>>
    /\ UNCHANGED <<rvars, req, cvars>>

LifespanStop ==
    /\ lpc = "serving"
    /\ stop
    /\ UNCHANGED <<cycle_flushes, enqueued, now, worker_task, wpc, since_flush, waited, tx, pending, next_event,
                   persisted, accepted>>
    /\ UNCHANGED <<rvars, req, cvars>>

LifespanStopResume ==
    /\ stop_resume
    /\ UNCHANGED <<cycle_flushes, enqueued, now, running, worker_task, wpc, since_flush, waited, tx, pending,
                   next_event, persisted, accepted, accepted_at_stop>>
    /\ UNCHANGED <<rvars, req, cvars>>

LogMetric(p) ==
    /\ lpc # "startup"
    /\ log_metric(p)
    /\ UNCHANGED <<cycle_flushes, now, running, worker_task, wpc, batch, since_flush, waited, tx, lpc,
                   awaited, persisted, flush_log, accepted_at_stop>>
    /\ UNCHANGED <<rvars, req, cvars>>

PutResume(p) ==
    /\ put_resume(p)
    /\ UNCHANGED <<cycle_flushes, now, running, worker_task, wpc, batch, since_flush, waited, tx,
                   next_event, lpc, awaited, persisted, flush_log,
                   accepted_at_stop>>
    /\ UNCHANGED <<rvars, req, cvars>>

WorkerExit(w) ==
    /\ worker_exit(w)
    /\ UNCHANGED <<cycle_flushes, enqueued, now, metrics_queue, putters, running, worker_task, waited, tx, ppc,
                   pending, next_event, lpc, awaited, persisted, accepted, accepted_at_stop>>
    /\ UNCHANGED <<rvars, req, cvars>>

WorkerTimeFlush(w) ==
    /\ worker_time_flush(w)
    /\ UNCHANGED <<enqueued, now, metrics_queue, putters, running, worker_task, waited, tx, ppc,
                   pending, next_event, lpc, awaited, persisted, accepted, accepted_at_stop>>
    /\ UNCHANGED <<rvars, req, cvars>>

WorkerWait(w) ==
    /\ worker_wait(w)
    /\ UNCHANGED <<cycle_flushes, enqueued, now, metrics_queue, putters, running, worker_task, tx, ppc, pending,
                   next_event, lpc, awaited, persisted, accepted,
                   flush_log, accepted_at_stop>>
    /\ UNCHANGED <<rvars, req, cvars>>

WorkerGet(w) ==
    /\ worker_get(w)
    /\ UNCHANGED <<enqueued, now, running, worker_task, since_flush, waited, tx, pending,
                   next_event, lpc, awaited, persisted, accepted,
                   accepted_at_stop>>
    /\ UNCHANGED <<rvars, req, cvars>>

WorkerTimeout(w) ==
    /\ worker_timeout(w)
    /\ UNCHANGED <<enqueued, now, metrics_queue, putters, running, worker_task, batch,
                   since_flush, waited, tx, ppc, pending, next_event, lpc, awaited,
                   persisted, accepted, flush_log, accepted_at_stop>>
    /\ UNCHANGED <<rvars, req, cvars>>

FlushExecute(f) ==
    /\ flush_execute(f)
    /\ UNCHANGED <<cycle_flushes, enqueued, now, metrics_queue, putters, running, worker_task, wpc, batch,
                   since_flush, waited, ppc, pending, next_event, lpc, awaited,
                   persisted, accepted, flush_log, accepted_at_stop>>
    /\ UNCHANGED <<rvars, req, cvars>>

FlushCommit(f) ==
    /\ flush_commit(f)
    /\ UNCHANGED <<enqueued, now, metrics_queue, putters, running, worker_task, ppc, pending,
                   next_event, awaited, accepted, accepted_at_stop>>
    /\ UNCHANGED <<rvars, req, cvars>>

FlushFail(f) ==
    /\ flush_fail(f)
    /\ UNCHANGED <<enqueued, now, metrics_queue, putters, running, worker_task, ppc, pending,
                   next_event, awaited, accepted, accepted_at_stop>>
    /\ UNCHANGED <<rvars, req, cvars>>

Tick ==
    /\ tick
    /\ UNCHANGED <<cycle_flushes, enqueued, now, metrics_queue, putters, running, worker_task, wpc, batch, tx,
                   ppc, pending, next_event, lpc, awaited, persisted, accepted, flush_log, accepted_at_stop>>
    /\ UNCHANGED <<rvars, req, cvars>>

\* -------------------------------------------------------- RedisService
\* every caller calls for the same user_id and endpoint
SameSubject == [c \in Callers |-> DefaultSubject]

NoResult == [valid |-> FALSE, allowed |-> TRUE, m |-> 0, h |-> 0]

InitRedis ==
    /\ store_ok = TRUE
    /\ store = [k \in Keys |-> 0]
    /\ ttl = [k \in Keys |-> 0]
    /\ clock = 0
    /\ cpc = [c \in Callers |-> "idle"]
    /\ ckeys = [c \in Callers |-> [m |-> 0, h |-> 0]]
    /\ counts = [c \in Callers |-> [m |-> 0, h |-> 0]]
    /\ calls = 0
    /\ call_failed = [c \in Callers |-> FALSE]
    /\ call_writes = [c \in Callers |-> 0]
    /\ result = [c \in Callers |-> NoResult]
    /\ admitted = [m |-> [b \in MinuteBuckets |-> 0], h |-> [b \in HourBuckets |-> 0]]
    /\ window_results = <<>>

\* now.strftime('%Y%m%d%H%M') and now.strftime('%Y%m%d%H'), lines 112-113
MinuteBucket(t) == t \div TicksPerMinute

HourBucket(t) == t \div TicksPerHour

\* a minute key without the minute in it
MinuteKeyShared(c) == Key(subject[c], "minute", 0)

MinuteKey(c) == Key(subject[c], "minute", ckeys[c].m)

HourKey(c) == Key(subject[c], "hour", ckeys[c].h)

\* a minute key that lives one tick less than a minute
MinuteTTLShort == TicksPerMinute - 1

\* ttl=60 and ttl=3600, lines 125-126
MinuteTTL == TicksPerMinute

HourTTL == TicksPerHour

\* a limiter that ignores the argument limit_per_minute
LimitPerMinuteDefault == RATE_LIMIT_PER_MINUTE

\* a limiter that takes the default only for a ceiling that is not given
LimitPerMinuteIfNone == IF limits[1] = None THEN RATE_LIMIT_PER_MINUTE ELSE limits[1]

\* lines 108-109: `limit_per_minute or settings.RATE_LIMIT_PER_MINUTE`; `or`
\* yields its right operand when the left one is falsy, which None and 0 are
LimitPerMinute == IF limits[1] \in {None, 0} THEN RATE_LIMIT_PER_MINUTE ELSE limits[1]

LimitPerHour == IF limits[2] \in {None, 0} THEN RATE_LIMIT_PER_HOUR ELSE limits[2]

\* get_counter, lines 56-66: the value, 0 for an absent key, 0 when get raises
get_counter(k) == IF store_ok THEN store[k] ELSE 0

\* a Redis command of caller c raises when the server does not answer
NoteFailure(c) ==
    call_failed' = [call_failed EXCEPT ![c] = call_failed[c] \/ ~store_ok]

\* check_rate_limit returns (allowed, m, h) to caller c
Return(c, allowed, m, h, mb, hb) ==
    LET r == [valid |-> TRUE, allowed |-> allowed, m |-> m, h |-> h]
    IN /\ cpc' = [cpc EXCEPT ![c] = "idle"]
       /\ result' = [result EXCEPT ![c] = r]
       /\ admitted' = IF allowed
                      THEN [m |-> [admitted.m EXCEPT ![mb] = @ + 1],
                            h |-> [admitted.h EXCEPT ![hb] = @ + 1]]
                      ELSE admitted

\* check_rate_limit, lines 105-113, up to the first Redis command
check_rate_limit(c) ==
    /\ cpc[c] = "idle"
    /\ call_writes' = [call_writes EXCEPT ![c] = 0]
    /\ counts' = [counts EXCEPT ![c] = [m |-> 0, h |-> 0]]
    /\ ckeys' = [ckeys EXCEPT ![c] = [m |-> MinuteBucket(clock), h |-> HourBucket(clock)]]
    /\ IF ~redis_up
       THEN /\ call_failed' = [call_failed EXCEPT ![c] = TRUE]
            /\ Return(c, TRUE, 0, 0, MinuteBucket(clock), HourBucket(clock))
       ELSE /\ call_failed' = [call_failed EXCEPT ![c] = FALSE]
            /\ cpc' = [cpc EXCEPT ![c] = "get_minute"]
            /\ UNCHANGED <<result, admitted>>
    /\ UNCHANGED <<redis_up, store_ok, store, ttl, clock, limits, subject>>

\* line 117: minute_count = await self.get_counter(minute_key)
rl_get_minute(c) ==
    /\ cpc[c] = "get_minute"
    /\ counts' = [counts EXCEPT ![c].m = get_counter(MinuteKey(c))]
    /\ NoteFailure(c)
    /\ cpc' = [cpc EXCEPT ![c] = "get_hour"]
    /\ UNCHANGED <<redis_up, store_ok, store, ttl, clock, ckeys, limits, subject,
                   call_writes, result, admitted>>

\* a test with > in place of >=
LimitExceeded(mc, hc) == mc > LimitPerMinute \/ hc > LimitPerHour

\* a test of the minute ceiling alone
LimitReachedMinuteOnly(mc, hc) == mc >= LimitPerMinute

\* line 121: minute_count >= limit_per_minute or hour_count >= limit_per_hour
LimitReached(mc, hc) == mc >= LimitPerMinute \/ hc >= LimitPerHour

\* a limiter that counts the call before it tests the ceilings
rl_get_hour_charging(c) ==
    LET mc == counts[c].m
        hc == get_counter(HourKey(c))
    IN /\ cpc[c] = "get_hour"
       /\ counts' = [counts EXCEPT ![c].h = hc]
       /\ NoteFailure(c)
       /\ store' = [store EXCEPT ![MinuteKey(c)] = @ + 1, ![HourKey(c)] = @ + 1]
       /\ call_writes' = [call_writes EXCEPT ![c] = @ + 2]
       /\ IF LimitReached(mc, hc)
          THEN Return(c, FALSE, mc, hc, ckeys[c].m, ckeys[c].h)
          ELSE Return(c, TRUE, mc + 1, hc + 1, ckeys[c].m, ckeys[c].h)
       /\ UNCHANGED <<redis_up, store_ok, ttl, clock, ckeys, limits, subject>>

\* lines 118-122: hour_count = await self.get_counter(hour_key), then the test
\* of both counts against their ceilings
rl_get_hour(c) ==
    LET mc == counts[c].m
        hc == get_counter(HourKey(c))
    IN /\ cpc[c] = "get_hour"
       /\ counts' = [counts EXCEPT ![c].h = hc]
       /\ NoteFailure(c)
       /\ IF LimitReached(mc, hc)
          THEN Return(c, FALSE, mc, hc, ckeys[c].m, ckeys[c].h)
          ELSE /\ cpc' = [cpc EXCEPT ![c] = "incr_minute"]
               /\ UNCHANGED <<result, admitted>>
       /\ UNCHANGED <<redis_up, store_ok, store, ttl, clock, ckeys, limits, subject,
                      call_writes>>

\* an INCR that is acknowledged and lost
rl_incr_lost(c, g) ==
    /\ cpc[c] = "incr_" \o g
    /\ NoteFailure(c)
    /\ cpc' = [cpc EXCEPT ![c] = "expire_" \o g]
    /\ UNCHANGED <<store, call_writes, result, admitted>>
    /\ UNCHANGED <<redis_up, store_ok, ttl, clock, ckeys, counts, limits, subject>>

\* increment_counter, lines 47-48 and 52-54: INCR; when it raises, the except
\* branch returns 0 and EXPIRE is not sent
rl_incr(c, g) ==
    LET k == IF g = "minute" THEN MinuteKey(c) ELSE HourKey(c)
    IN /\ cpc[c] = "incr_" \o g
       /\ NoteFailure(c)
       /\ IF store_ok
          THEN /\ store' = [store EXCEPT ![k] = @ + 1]
               /\ call_writes' = [call_writes EXCEPT ![c] = @ + 1]
               /\ cpc' = [cpc EXCEPT ![c] = "expire_" \o g]
               /\ UNCHANGED <<result, admitted>>
          ELSE /\ UNCHANGED <<store, call_writes>>
               /\ IF g = "minute"
                  THEN /\ cpc' = [cpc EXCEPT ![c] = "incr_hour"]
                       /\ UNCHANGED <<result, admitted>>
                  ELSE Return(c, TRUE, counts[c].m + 1, counts[c].h + 1,
                              ckeys[c].m, ckeys[c].h)
       /\ UNCHANGED <<redis_up, store_ok, ttl, clock, ckeys, counts, limits, subject>>

\* increment_counter, lines 49-54: EXPIRE key ttl; after the hour key's EXPIRE
\* check_rate_limit returns (True, minute_count + 1, hour_count + 1), line 128
rl_expire(c, g) ==
    LET k == IF g = "minute" THEN MinuteKey(c) ELSE HourKey(c)
        t == IF g = "minute" THEN MinuteTTL ELSE HourTTL
        set == store_ok /\ store[k] > 0
    IN /\ cpc[c] = "expire_" \o g
       /\ NoteFailure(c)
       /\ ttl' = IF set THEN [ttl EXCEPT ![k] = t] ELSE ttl
       /\ call_writes' = IF set THEN [call_writes EXCEPT ![c] = @ + 1] ELSE call_writes
       /\ IF g = "minute"
          THEN /\ cpc' = [cpc EXCEPT ![c] = "incr_hour"]
               /\ UNCHANGED <<result, admitted>>
          ELSE Return(c, TRUE, counts[c].m + 1, counts[c].h + 1,
                      ckeys[c].m, ckeys[c].h)
       /\ UNCHANGED <<redis_up, store_ok, store, clock, ckeys, counts, limits, subject>>

\* time passes: Redis deletes the keys whose time to live has run out
redis_tick ==
    /\ clock < MaxClock
    /\ clock' = clock + 1
    /\ store' = [k \in Keys |-> IF ttl[k] = 1 THEN 0 ELSE store[k]]
    /\ ttl' = [k \in Keys |-> IF ttl[k] > 0 THEN ttl[k] - 1 ELSE 0]
    /\ UNCHANGED <<redis_up, store_ok, cpc, ckeys, counts, limits, subject, call_failed,
                   call_writes, result, admitted>>

\* the Redis server stops answering, or answers again
redis_outage ==
    /\ store_ok' = ~store_ok
    /\ UNCHANGED <<redis_up, store, ttl, clock, cpc, ckeys, counts, limits, subject,
                   call_failed, call_writes, result, admitted>>

\* the caller of the sequential runs
SeqCaller == CHOOSE c \in Callers : \A d \in Callers : c <= d

\* ------------------------------------------------ RateLimitMiddleware
\* a request: where it stands in dispatch, whether its path is one of the
\* exempt ones (line 74), whether call_next was invoked for it, the telemetry
\* events its handler enqueued, the status of its response (0: none yet)
NoRequest == [pc |-> "idle", exempt |-> FALSE, ran |-> FALSE, logged |-> 0, status |-> 0]

InitRequests == req = [c \in Callers |-> NoRequest]

\* a middleware without the list of exempt paths
dispatch_no_exemption(c, exempt) ==
    /\ req[c].pc \in {"idle", "done"}
    /\ cpc[c] = "idle"
    /\ req' = [req EXCEPT ![c] = [NoRequest EXCEPT !.pc = "limit", !.exempt = exempt]]
    /\ check_rate_limit(c)

\* dispatch, lines 74-84: an exempt path goes straight to call_next, any other
\* path to check_rate_limit with the default ceilings
dispatch(c, exempt) ==
    /\ req[c].pc \in {"idle", "done"}
    /\ cpc[c] = "idle"
    /\ IF exempt
       THEN /\ req' = [req EXCEPT ![c] = [NoRequest EXCEPT !.pc = "handler",
                                                          !.exempt = TRUE, !.ran = TRUE]]
            /\ UNCHANGED <<redis_up, store_ok, store, ttl, clock, cpc, ckeys, counts,
                           limits, subject, call_failed, call_writes, result, admitted>>
       ELSE /\ req' = [req EXCEPT ![c] = [NoRequest EXCEPT !.pc = "limit"]]
            /\ check_rate_limit(c)

\* a middleware that lets every request through
gate_open(c) ==
    /\ req[c].pc = "limit"
    /\ cpc[c] = "idle"
    /\ req' = [req EXCEPT ![c].pc = "handler", ![c].ran = TRUE]

\* dispatch, lines 86-99: 429 for a rejected request, call_next for an admitted one
gate(c) ==
    /\ req[c].pc = "limit"
    /\ cpc[c] = "idle"
    /\ IF result[c].allowed
       THEN req' = [req EXCEPT ![c].pc = "handler", ![c].ran = TRUE]
       ELSE req' = [req EXCEPT ![c].pc = "done", ![c].status = 429]

\* call_next: a route handler that enqueues no telemetry
handler_plain(c) ==
    /\ req[c].pc = "handler"
    /\ req' = [req EXCEPT ![c].pc = "done", ![c].status = 200]

\* call_next: the chat route, whose GroqService.chat_completion awaits
\* log_metric (groq_service.py 169, 225)
handler_chat(c) ==
    /\ req[c].pc = "handler"
    /\ c \in Producers
    /\ log_metric(c)
    /\ req' = [req EXCEPT ![c].logged = @ + 1,
                          ![c].pc = IF ppc'[c] = "idle" THEN "done" ELSE "logging",
                          ![c].status = IF ppc'[c] = "idle" THEN 200 ELSE 0]

\* log_metric has returned to the chat route
handler_logged(c) ==
    /\ req[c].pc = "logging"
    /\ ppc[c] = "idle"
    /\ req' = [req EXCEPT ![c].pc = "done", ![c].status = 200]

\* -------------------------------------------------------- GroqService
\* a chat_completion call: where it stands, its request_id (line 63), and
\* whether the completion the API returned carries a text content
NoCall == [pc |-> "idle", request_id |-> 0, content |-> TRUE]

InitChat ==
    /\ chat = [p \in Producers |-> NoCall]
    /\ next_request = 1
    /\ handed = <<>>

\* the metric built at lines 151-166 or 208-223 is passed to log_metric
Hand(p, status) ==
    handed' = Append(handed, [request_id |-> chat[p].request_id, status |-> status,
                              event |-> next_event])

\* chat_completion, lines 63-104: request_id = str(uuid.uuid4()), then the
\* await of client.chat.completions.create
chat_completion(p) ==
    /\ chat[p].pc \in {"idle", "returned", "raised"}
    /\ next_request <= MaxRequests
    /\ chat' = [chat EXCEPT ![p] = [NoCall EXCEPT !.pc = "api", !.request_id = next_request]]
    /\ next_request' = next_request + 1
    /\ UNCHANGED handed

\* lines 111-169: the API call returned a completion; its message content is
\* a string or None (Optional[str] in the SDK); the success metric is built
\* and `await metrics_service.log_metric(metric)` is reached inside the try
chat_api_returns(p, has_content) ==
    /\ chat[p].pc = "api"
    /\ log_metric(p)
    /\ Hand(p, "success")
    /\ chat' = [chat EXCEPT ![p].pc = "success_logged", ![p].content = has_content]
    /\ UNCHANGED next_request

\* lines 187-225: the API call raised; the error metric is built with the same
\* request_id and `await metrics_service.log_metric(error_metric)` is reached
chat_api_raises(p) ==
    /\ chat[p].pc = "api"
    /\ log_metric(p)
    /\ Hand(p, "error")
    /\ chat' = [chat EXCEPT ![p].pc = "error_logged"]
    /\ UNCHANGED next_request

\* lines 172-185, still inside the try: GroqChatResponse(content=content, ...)
\* with `content: str` (schemas.py 233) raises a ValidationError for None,
\* which `except Exception` of line 187 catches: lines 189-225 run
chat_respond(p) ==
    /\ chat[p].pc = "success_logged"
    /\ ppc[p] = "idle"
    /\ UNCHANGED next_request
    /\ IF chat[p].content
       THEN /\ chat' = [chat EXCEPT ![p].pc = "returned"]
            /\ UNCHANGED <<handed, next_event, metrics_queue, putters, ppc, pending,
                           accepted, enqueued>>
       ELSE /\ log_metric(p)
            /\ Hand(p, "error")
            /\ chat' = [chat EXCEPT ![p].pc = "error_logged"]

\* line 228: raise
chat_reraise(p) ==
    /\ chat[p].pc = "error_logged"
    /\ ppc[p] = "idle"
    /\ chat' = [chat EXCEPT ![p].pc = "raised"]
    /\ UNCHANGED <<next_request, handed>>

\* ------------------------------------ the limiter under concurrent callers
\* callers of check_rate_limit run concurrently against a Redis that answers
Others == UNCHANGED <<mvars, window_results, req, cvars>>

Counted == calls < MaxCalls /\ calls' = calls + 1

CheckRateLimit(c) == Counted /\ check_rate_limit(c) /\ Others

GetMinute(c) == rl_get_minute(c) /\ UNCHANGED calls /\ Others

GetHour(c) == rl_get_hour(c) /\ UNCHANGED calls /\ Others

IncrMinute(c) == rl_incr(c, "minute") /\ UNCHANGED calls /\ Others

ExpireMinute(c) == rl_expire(c, "minute") /\ UNCHANGED calls /\ Others

IncrHour(c) == rl_incr(c, "hour") /\ UNCHANGED calls /\ Others

ExpireHour(c) == rl_expire(c, "hour") /\ UNCHANGED calls /\ Others

RedisOutage == redis_outage /\ UNCHANGED calls /\ Others

InitRL ==
    /\ InitMetrics
    /\ InitRedis
    /\ InitRequests
    /\ InitChat
    /\ redis_up = TRUE
    /\ limits \in ConcLimits
    /\ subject = SameSubject

NextRL ==
    \/ \E c \in Callers : CheckRateLimit(c)
    \/ \E c \in Callers : GetMinute(c)
    \/ \E c \in Callers : GetHour(c)
    \/ \E c \in Callers : IncrMinute(c)
    \/ \E c \in Callers : ExpireMinute(c)
    \/ \E c \in Callers : IncrHour(c)
    \/ \E c \in Callers : ExpireHour(c)

SpecRL == InitRL /\ [][NextRL]_vars

\* ------------------------- the limiter under callers of different subjects
\* every caller calls for its own (user_id, endpoint) pair, no two the same
InitPairs ==
    /\ InitMetrics
    /\ InitRedis
    /\ InitRequests
    /\ InitChat
    /\ redis_up = TRUE
    /\ limits \in ConcLimits
    /\ subject \in [Callers -> Pairs]
    /\ \A c, d \in Callers : c # d => subject[c] # subject[d]

SpecPairs == InitPairs /\ [][NextRL]_vars

\* --------------------------------- the limiter under a Redis that may fail
\* connect() (lines 21-34) leaves a client or None; the server may stop
\* answering and answer again at any moment
InitFail ==
    /\ InitMetrics
    /\ InitRedis
    /\ InitRequests
    /\ InitChat
    /\ redis_up \in BOOLEAN
    /\ limits \in ConcLimits
    /\ subject = SameSubject

NextFail ==
    \/ CheckRateLimit(SeqCaller)
    \/ GetMinute(SeqCaller)
    \/ GetHour(SeqCaller)
    \/ IncrMinute(SeqCaller)
    \/ ExpireMinute(SeqCaller)
    \/ IncrHour(SeqCaller)
    \/ ExpireHour(SeqCaller)
    \/ RedisOutage

SpecFail == InitFail /\ [][NextFail]_vars

\* ------------------------- the limiter under one caller and a working store
\* the results of the calls of the latest minute window, in the order returned;
\* `inside` tells whether the call returned before its window ended
NoteResult ==
    LET r == [allowed |-> result'[SeqCaller].allowed, m |-> result'[SeqCaller].m,
              h |-> result'[SeqCaller].h, mb |-> ckeys[SeqCaller].m,
              inside |-> (MinuteBucket(clock) = ckeys[SeqCaller].m)]
    IN window_results' =
         IF cpc[SeqCaller] # "idle" /\ cpc'[SeqCaller] = "idle"
         THEN IF window_results # <<>> /\ window_results[Len(window_results)].mb = r.mb
              THEN Append(window_results, r)
              ELSE <<r>>
         ELSE window_results

SeqFrame == NoteResult /\ UNCHANGED <<mvars, calls, req, cvars>>

\* at most MaxCallsSeq calls are made in one minute window
SeqCheckRateLimit ==
    /\ IF window_results # <<>> /\ window_results[Len(window_results)].mb = MinuteBucket(clock)
       THEN Len(window_results) < MaxCallsSeq
       ELSE TRUE
    /\ check_rate_limit(SeqCaller)
    /\ SeqFrame

SeqGetMinute == rl_get_minute(SeqCaller) /\ SeqFrame

SeqGetHour == rl_get_hour(SeqCaller) /\ SeqFrame

SeqIncrMinute == rl_incr(SeqCaller, "minute") /\ SeqFrame

SeqExpireMinute == rl_expire(SeqCaller, "minute") /\ SeqFrame

SeqIncrHour == rl_incr(SeqCaller, "hour") /\ SeqFrame

SeqExpireHour == rl_expire(SeqCaller, "hour") /\ SeqFrame

SeqTick == redis_tick /\ UNCHANGED <<mvars, calls, window_results, req, cvars>>

InitSeq ==
    /\ InitMetrics
    /\ InitRedis
    /\ InitRequests
    /\ InitChat
    /\ redis_up = TRUE
    /\ limits \in SeqLimits
    /\ subject = SameSubject

NextSeq ==
    \/ SeqCheckRateLimit
    \/ SeqGetMinute
    \/ SeqGetHour
    \/ SeqIncrMinute
    \/ SeqExpireMinute
    \/ SeqIncrHour
    \/ SeqExpireHour
    \/ SeqTick

SpecSeq == InitSeq /\ [][NextSeq]_vars

\* -------------------------------------------------- the metrics pipeline
Init ==
    /\ InitMetrics
    /\ InitRedis
    /\ InitRequests
    /\ InitChat
    /\ redis_up = TRUE
    /\ limits = <<None, None>>
    /\ subject = SameSubject

Next ==
    \/ LifespanStart
    \/ LifespanStop
    \/ LifespanStopResume
    \/ \E p \in Producers : LogMetric(p)
    \/ \E p \in Producers : PutResume(p)
    \/ \E w \in Tasks : WorkerExit(w)
    \/ \E w \in Tasks : WorkerTimeFlush(w)
    \/ \E w \in Tasks : WorkerWait(w)
    \/ \E w \in Tasks : WorkerGet(w)
    \/ \E w \in Tasks : WorkerTimeout(w)
    \/ \E f \in Flushers : FlushExecute(f)
    \/ \E f \in Flushers : FlushCommit(f)
    \/ \E f \in Flushers : FlushFail(f)
    \/ Tick

Spec == Init /\ [][Next]_vars

\* The event loop runs every ready task, time passes, and every sink write
\* ends (commits or raises); callers of log_metric, start and stop are free.
FairSpec ==
    /\ Spec
    /\ \A p \in Producers : WF_vars(PutResume(p))
    /\ \A w \in Tasks : WF_vars(WorkerExit(w))
    /\ \A w \in Tasks : WF_vars(WorkerTimeFlush(w))
    /\ \A w \in Tasks : WF_vars(WorkerWait(w))
    /\ \A w \in Tasks : WF_vars(WorkerGet(w))
    /\ \A w \in Tasks : WF_vars(WorkerTimeout(w))
    /\ \A f \in Flushers : WF_vars(FlushCommit(f) \/ FlushFail(f))
    /\ \A f \in Flushers : WF_vars(FlushExecute(f))
    /\ WF_vars(LifespanStopResume)
    /\ WF_vars(Tick)

\* ------------------------------------------ the pipeline against its clock
\* The same service with the time of day observed: `now` advances with every
\* second that passes, every put() and every call of _flush_batch is stamped
\* with it.  A sink write takes no measurable time here, so the times seen are
\* those of the worker loop alone.
timed_tick ==
    /\ ~(\E f \in Flushers : InFlush(f))
    /\ tick
    /\ now' = Min(now + 1, MaxTime)

TimedTick ==
    /\ timed_tick
    /\ UNCHANGED <<cycle_flushes, metrics_queue, putters, running, worker_task, wpc, batch, tx,
                   ppc, pending, next_event, lpc, awaited, persisted, accepted,
                   flush_log, accepted_at_stop, enqueued>>
    /\ UNCHANGED <<rvars, req, cvars>>

NextTimed ==
    \/ LifespanStart
    \/ LifespanStop
    \/ LifespanStopResume
    \/ \E p \in Producers : LogMetric(p)
    \/ \E p \in Producers : PutResume(p)
    \/ \E w \in Tasks : WorkerExit(w)
    \/ \E w \in Tasks : WorkerTimeFlush(w)
    \/ \E w \in Tasks : WorkerWait(w)
    \/ \E w \in Tasks : WorkerGet(w)
    \/ \E w \in Tasks : WorkerTimeout(w)
    \/ \E f \in Flushers : FlushExecute(f)
    \/ \E f \in Flushers : FlushCommit(f)
    \/ \E f \in Flushers : FlushFail(f)
    \/ TimedTick

SpecTimed == Init /\ [][NextTimed]_vars

\* ------------------------------- the service under free start() and stop()
\* MetricsService as an object: start(), stop() and log_metric() are called in
\* any order by any task; start() may run while a stop() is suspended on the
\* worker or on its drain flush.  One stop() is in flight at a time.
FreeStart ==
    /\ start
    /\ UNCHANGED <<cycle_flushes, metrics_queue, putters, batch, since_flush, waited, tx, ppc,
                   pending, next_event, lpc, awaited, persisted, accepted,
                   flush_log, accepted_at_stop, enqueued, now>>
    /\ UNCHANGED <<rvars, req, cvars>>

FreeStop ==
    /\ lpc \notin {"await_worker", "stop_flush"}
    /\ stop
    /\ UNCHANGED <<cycle_flushes, worker_task, wpc, since_flush, waited, tx, pending, next_event,
                   persisted, accepted, enqueued, now>>
    /\ UNCHANGED <<rvars, req, cvars>>

FreeLogMetric(p) ==
    /\ next_event <= MaxEventsFree
    /\ log_metric(p)
    /\ UNCHANGED <<cycle_flushes, running, worker_task, wpc, batch, since_flush, waited, tx, lpc,
                   awaited, persisted, flush_log, accepted_at_stop, now>>
    /\ UNCHANGED <<rvars, req, cvars>>

NextFree ==
    \/ FreeStart
    \/ FreeStop
    \/ LifespanStopResume
    \/ \E p \in Producers : FreeLogMetric(p)
    \/ \E p \in Producers : PutResume(p)
    \/ \E w \in Tasks : WorkerExit(w)
    \/ \E w \in Tasks : WorkerTimeFlush(w)
    \/ \E w \in Tasks : WorkerWait(w)
    \/ \E w \in Tasks : WorkerGet(w)
    \/ \E w \in Tasks : WorkerTimeout(w)
    \/ \E f \in Flushers : FlushExecute(f)
    \/ \E f \in Flushers : FlushCommit(f)
    \/ \E f \in Flushers : FlushFail(f)
    \/ Tick

SpecFree == Init /\ [][NextFree]_vars

\* ------------------------------------------------ requests under the gate
\* Requests arrive while the application serves; RateLimitMiddleware is the
\* outermost middleware (main.py 96-98, the last one added) and calls
\* check_rate_limit without ceilings, so the defaults apply.  The runs start
\* with the counters of the current window at 0, one below the default minute
\* ceiling, or at it.  No time passes and no sink write fails in these runs.
Dispatch(c, exempt) ==
    /\ lpc = "serving"
    /\ Counted
    /\ dispatch(c, exempt)
    /\ UNCHANGED <<mvars, window_results, cvars>>

Gate(c) == gate(c) /\ UNCHANGED <<mvars, rvars, cvars>>

HandlerPlain(c) == handler_plain(c) /\ UNCHANGED <<mvars, rvars, cvars>>

HandlerChat(c) ==
    /\ handler_chat(c)
    /\ UNCHANGED <<running, worker_task, wpc, batch, since_flush, waited, tx, lpc,
                   awaited, persisted, flush_log, accepted_at_stop, now, cycle_flushes>>
    /\ UNCHANGED <<rvars, cvars>>

HandlerLogged(c) == handler_logged(c) /\ UNCHANGED <<mvars, rvars, cvars>>

StartCounts == {0, RATE_LIMIT_PER_MINUTE - 1, RATE_LIMIT_PER_MINUTE}

CurrentKeys == {Key(DefaultSubject, "minute", 0), Key(DefaultSubject, "hour", 0)}

InitReq ==
    /\ InitMetrics
    /\ InitRequests
    /\ InitChat
    /\ redis_up = TRUE
    /\ store_ok = TRUE
    /\ limits = <<None, None>>
    /\ subject = SameSubject
    /\ \E n \in StartCounts :
          /\ store = [k \in Keys |-> IF k \in CurrentKeys THEN n ELSE 0]
          /\ ttl = [k \in Keys |->
                      IF k \in CurrentKeys /\ n > 0
                      THEN (IF k = Key(DefaultSubject, "minute", 0) THEN MinuteTTL ELSE HourTTL)
                      ELSE 0]
          /\ admitted = [m |-> [b \in MinuteBuckets |-> IF b = 0 THEN n ELSE 0],
                         h |-> [b \in HourBuckets |-> IF b = 0 THEN n ELSE 0]]
    /\ clock = 0
    /\ cpc = [c \in Callers |-> "idle"]
    /\ ckeys = [c \in Callers |-> [m |-> 0, h |-> 0]]
    /\ counts = [c \in Callers |-> [m |-> 0, h |-> 0]]
    /\ calls = 0
    /\ call_failed = [c \in Callers |-> FALSE]
    /\ call_writes = [c \in Callers |-> 0]
    /\ result = [c \in Callers |-> NoResult]
    /\ window_results = <<>>

NextReq ==
    \/ LifespanStart
    \/ \E c \in Callers : \E exempt \in BOOLEAN : Dispatch(c, exempt)
    \/ \E c \in Callers : GetMinute(c)
    \/ \E c \in Callers : GetHour(c)
    \/ \E c \in Callers : IncrMinute(c)
    \/ \E c \in Callers : ExpireMinute(c)
    \/ \E c \in Callers : IncrHour(c)
    \/ \E c \in Callers : ExpireHour(c)
    \/ \E c \in Callers : Gate(c)
    \/ \E c \in Callers : HandlerPlain(c)
    \/ \E c \in Callers : HandlerChat(c)
    \/ \E c \in Callers : HandlerLogged(c)
    \/ \E p \in Producers : PutResume(p)
    \/ \E w \in Tasks : WorkerWait(w)
    \/ \E w \in Tasks : WorkerGet(w)
    \/ \E f \in Flushers : FlushExecute(f)
    \/ \E f \in Flushers : FlushCommit(f)

SpecReq == InitReq /\ [][NextReq]_vars

\* ------------------------------------------- chat completions and telemetry
\* Request tasks run GroqService.chat_completion while the application
\* serves; the worker drains the queue.  No time passes and no sink write
\* fails in these runs.
ChatFrame ==
    UNCHANGED <<running, worker_task, wpc, batch, since_flush, waited, tx, lpc,
                awaited, persisted, flush_log, accepted_at_stop, now, cycle_flushes,
                rvars, req>>

ChatCompletion(p) ==
    /\ lpc = "serving"
    /\ chat_completion(p)
    /\ UNCHANGED <<mvars, rvars, req>>

ChatApiReturns(p, has_content) == chat_api_returns(p, has_content) /\ ChatFrame

ChatApiRaises(p) == chat_api_raises(p) /\ ChatFrame

ChatRespond(p) == chat_respond(p) /\ ChatFrame

ChatReraise(p) == chat_reraise(p) /\ UNCHANGED <<mvars, rvars, req>>

NextChat ==
    \/ LifespanStart
    \/ \E p \in Producers : ChatCompletion(p)
    \/ \E p \in Producers : \E has_content \in BOOLEAN : ChatApiReturns(p, has_content)
    \/ \E p \in Producers : ChatApiRaises(p)
    \/ \E p \in Producers : ChatRespond(p)
    \/ \E p \in Producers : ChatReraise(p)
    \/ \E p \in Producers : PutResume(p)
    \/ \E w \in Tasks : WorkerWait(w)
    \/ \E w \in Tasks : WorkerGet(w)
    \/ \E f \in Flushers : FlushExecute(f)
    \/ \E f \in Flushers : FlushCommit(f)

SpecChat == Init /\ [][NextChat]_vars

\* ---------------------------------------------------------------- claims
Blocked(p) == ppc[p] \in {"blocked", "woken"}

InBatches(e) == \E f \in Flushers : e \in Range(batch[f])

\* C1: log_metric never blocks its caller: in no reachable state is a producer
\* suspended inside log_metric (on a full queue it would return False at once).
C1_LogMetricNeverBlocks == \A p \in Producers : ~Blocked(p)

\* C2: a stalled sink write blocks only the flusher: while a flush is waiting
\* on the sink, no request-path caller of log_metric is waiting for a queue slot.
C2_SinkStallNeverBlocksProducer ==
    (\E f \in Flushers : InFlush(f)) => \A p \in Producers : ppc[p] # "blocked"

\* C3: when stop() has returned, every event log_metric accepted before stop()
\* was called has been part of exactly one call of _flush_batch.
C3_ShutdownFlushesAcceptedOnce ==
    lpc = "stopped" => \A e \in accepted_at_stop : Attempts(e) = 1

\* C3 witness: stop() has returned after the worker's final flush and the
\* drain flush both carried events accepted before stop() was called.
C3_Witness ==
    /\ lpc = "stopped"
    /\ \E i, j \in DOMAIN flush_log :
          /\ flush_log[i].kind = "final"
          /\ flush_log[j].kind = "drain"
          /\ Range(flush_log[i].events) \subseteq accepted_at_stop
          /\ Range(flush_log[j].events) \subseteq accepted_at_stop

\* the events of a failed batch are gone: in no queue, in no batch, not
\* persisted, and part of no second flush
C10_Discarded ==
    \A e \in Discarded :
        /\ e \notin Range(metrics_queue)
        /\ ~InBatches(e)
        /\ e \notin Range(persisted)
        /\ Attempts(e) = 1

\* a flush of the worker loop fails in this step
LoopFlushFails(w) ==
    /\ wpc[w] \in {"flush_time", "flush_size"}
    /\ flush_log'[CurrentFlush(w)].result = "failed"

\* the worker is back in its loop with an empty batch and a reset timer
C10_Resumes(w) ==
    /\ wpc'[w] = (IF wpc[w] = "flush_time" THEN "get" ELSE "loop")
    /\ batch'[w] = <<>>
    /\ since_flush'[w] = 0
    /\ metrics_queue' = metrics_queue
    /\ persisted' = persisted

\* C10: a failed sink write discards the whole batch (no retry, no re-enqueue)
\* and the worker goes on: it is back in its loop with an empty batch and a
\* reset flush timer, and an event queued while the service runs after a
\* failure is still taken into a flush.
C10_FailedFlushDiscardsAndContinues ==
    /\ []C10_Discarded
    /\ [][\A w \in Tasks : LoopFlushFails(w) => C10_Resumes(w)]_vars
    /\ \A e \in Events :
          (Discarded # {} /\ running /\ e \in Range(metrics_queue)) ~> (Attempts(e) >= 1)

\* C10 witness: after a failed flush of the worker loop, a later event was
\* dequeued, flushed and persisted by the same worker.
C10_Witness ==
    \E i, j \in DOMAIN flush_log :
        /\ i < j
        /\ flush_log[i].kind \in {"time", "size"}
        /\ flush_log[i].result = "failed"
        /\ flush_log[j].kind \in {"time", "size"}
        /\ flush_log[j].result = "ok"
        /\ Range(flush_log[j].events) \subseteq Range(persisted)

Returned(c) == cpc[c] = "idle" /\ result[c].valid

\* C4: check-and-increment is atomic: however concurrent calls for the same
\* subject and endpoint interleave inside one window, the number of admitted
\* calls of the window never exceeds the ceiling.
C4_AdmittedWithinCeiling ==
    /\ \A b \in MinuteBuckets : admitted.m[b] <= LimitPerMinute
    /\ \A b \in HourBuckets : admitted.h[b] <= LimitPerHour

\* every call of the latest window returned inside the window
InsideWindow == \A i \in DOMAIN window_results : window_results[i].inside

\* C5: under sequential calls inside one minute window with ceiling N in
\* {1, 60} and a working store, the i-th call is admitted exactly when i <= N.
C5_ExactlyFirstNAdmitted ==
    (LimitPerMinute \in {1, 60} /\ InsideWindow) =>
        \A i \in DOMAIN window_results : window_results[i].allowed <=> (i <= LimitPerMinute)

\* C5 witness: with ceiling 60, the 60th call of a window was admitted and the
\* 61st and 62nd were rejected.
C5_Witness ==
    /\ LimitPerMinute = 60
    /\ InsideWindow
    /\ Len(window_results) >= 62
    /\ window_results[60].allowed
    /\ ~window_results[61].allowed
    /\ ~window_results[62].allowed

\* C6: with a minute ceiling of 3, five sequential calls inside one minute
\* return admitted = [true, true, true, false, false] and minute_count =
\* [1, 2, 3, 3, 3].
C6_ScenarioCeilingThree ==
    (limits[1] = 3 /\ InsideWindow /\ Len(window_results) >= 5) =>
        /\ [i \in 1..5 |-> window_results[i].allowed] = <<TRUE, TRUE, TRUE, FALSE, FALSE>>
        /\ [i \in 1..5 |-> window_results[i].m] = <<1, 2, 3, 3, 3>>

\* C6 witness: five calls have returned inside one minute under ceiling 3.
C6_Witness == limits[1] = 3 /\ InsideWindow /\ Len(window_results) = 5

\* C7: the limiter fails open: a call during which there was no client or a
\* Redis command raised returns admitted = True.
C7_FailsOpen ==
    \A c \in Callers : (Returned(c) /\ call_failed[c]) => result[c].allowed

\* C8: a call during which the store was unreachable (no client, or a get or
\* increment raised) reports minute_count = 0 and hour_count = 0.
C8_ZeroCountsOnFailure ==
    \A c \in Callers :
        (Returned(c) /\ call_failed[c]) => (result[c].m = 0 /\ result[c].h = 0)

\* C9: a rejected call has sent no command that changes a counter or its
\* time to live.
C9_RejectedCallWritesNothing ==
    \A c \in Callers : (Returned(c) /\ ~result[c].allowed) => call_writes[c] = 0

\* C9 witness: a call was rejected at the minute ceiling while the counters
\* of its window exist in the store.
C9_Witness ==
    \E c \in Callers :
        /\ Returned(c)
        /\ ~result[c].allowed
        /\ result[c].m >= LimitPerMinute
        /\ store[MinuteKey(c)] > 0

\* the events of all calls of _flush_batch, in the order the calls were made
RECURSIVE FlushedUpTo(_)
FlushedUpTo(n) ==
    IF n = 0 THEN <<>> ELSE FlushedUpTo(n - 1) \o flush_log[n].events

FlushOrder == FlushedUpTo(Len(flush_log))

\* the place of event e in the order of completed puts, and its producer
EnqPos(e) == CHOOSE i \in DOMAIN enqueued : enqueued[i].event = e

ProducerOf(e) == enqueued[EnqPos(e)].by

\* C11: the flusher drains in FIFO order: in the concatenation of all flush
\* batches, in the order the flushes are attempted, two events of the same
\* producer stand in the order in which that producer enqueued them.
C11_FifoPerProducer ==
    \A i, j \in DOMAIN FlushOrder :
        (i < j /\ ProducerOf(FlushOrder[i]) = ProducerOf(FlushOrder[j]))
            => EnqPos(FlushOrder[i]) < EnqPos(FlushOrder[j])

\* C11 witness: one producer has events in a flush of the worker loop, in the
\* worker's final flush and in the drain flush of stop().
C11_Witness ==
    \E p \in Producers : \E i, j, k \in DOMAIN flush_log :
        /\ flush_log[i].kind \in {"time", "size"}
        /\ flush_log[j].kind = "final"
        /\ flush_log[k].kind = "drain"
        /\ \A n \in {i, j, k} : \E m \in DOMAIN flush_log[n].events :
               ProducerOf(flush_log[n].events[m]) = p

NoDup(q) == \A i, j \in DOMAIN q : i # j => q[i] # q[j]

\* C12: at-most-once delivery under any interleaving of producers, workers,
\* start() and stop(): no event is part of more than one call of _flush_batch
\* (nor twice in one batch), and no event is persisted more than once.
C12_AtMostOnce ==
    /\ \A e \in Events : Attempts(e) <= 1
    /\ \A i \in DOMAIN flush_log : NoDup(flush_log[i].events)
    /\ NoDup(persisted)

\* C12 witness: after a stop() and a second start() two worker tasks and the
\* drain of stop() have each flushed events.
C12_Witness ==
    \E i, j, k \in DOMAIN flush_log :
        /\ flush_log[i].by = StopFlusher
        /\ flush_log[j].by # StopFlusher
        /\ flush_log[k].by \notin {StopFlusher, flush_log[j].by}

\* the time at which event e was enqueued
EnqAt(e) == enqueued[EnqPos(e)].at

\* the METRICS_BATCH_SIZE events enqueued from place k on all exist and were
\* enqueued at time t
BatchEnqueuedAt(k, t) ==
    /\ k + METRICS_BATCH_SIZE - 1 <= Len(enqueued)
    /\ \A n \in k..(k + METRICS_BATCH_SIZE - 1) : enqueued[n].at = t

\* C13: the count trigger precedes the time trigger: when B = METRICS_BATCH_SIZE
\* events are enqueued without a gap above the flush interval (here: all of
\* them within the same second), no time-triggered flush takes a part of them
\* before the flush of all B.
C13_CountTriggerFirst ==
    now < MaxTime =>
        \A i \in DOMAIN flush_log :
            (flush_log[i].kind = "time" /\ Len(flush_log[i].events) < METRICS_BATCH_SIZE)
                => ~BatchEnqueuedAt(EnqPos(flush_log[i].events[1]), flush_log[i].at)

Scenario ==
    /\ Len(enqueued) = METRICS_BATCH_SIZE + 1
    /\ \A n \in 1..METRICS_BATCH_SIZE : enqueued[n].at = 0
    /\ enqueued[METRICS_BATCH_SIZE + 1].at = 1
    /\ \A p \in Producers : ppc[p] = "idle"
    /\ lpc = "serving"

C16_CleanShutdownLosesNothing ==
    [][(lpc # "stopped" /\ lpc' = "stopped" /\ Discarded' = {})
          => /\ accepted' \subseteq Range(persisted')
             /\ metrics_queue' = <<>>
             /\ \A f \in Flushers : batch'[f] = <<>>]_vars

\* the flushes made for the shutdown: the worker's final flush and stop()'s drain
ShutdownFlushes == {i \in DOMAIN flush_log : flush_log[i].kind \in {"final", "drain"}}

\* C17: after the shutdown signal exactly one further flush is made: the
\* events left in the local batch and those drained from the queue are
\* written together as one batch in one transaction.
C17_OneShutdownFlush == Cardinality(ShutdownFlushes) <= 1

\* C18: an enqueue on a full queue is rejected without effect: an event
\* whose put() found the queue full never enters the queue, so it is never
\* accepted, flushed or persisted.
C18_FullQueueRejects ==
    [][\A p \in Producers : Blocked(p) => pending[p] \notin accepted']_vars

\* C19: the queue is bounded: it never holds more than METRICS_QUEUE_SIZE
\* events, however many producers put concurrently.
C19_QueueBounded == Len(metrics_queue) <= METRICS_QUEUE_SIZE

\* C19 witness: the queue is at capacity and every producer is suspended in a
\* put() that found it full.
C19_Witness ==
    /\ Len(metrics_queue) = METRICS_QUEUE_SIZE
    /\ \A p \in Producers : ppc[p] = "blocked"

\* C20: the local batch of the worker loop never holds more than
\* METRICS_BATCH_SIZE events: when it reaches that length the worker is in the
\* size-triggered flush, before it dequeues another event.
C20_BatchBounded ==
    \A w \in Tasks :
        /\ Len(batch[w]) <= METRICS_BATCH_SIZE
        /\ Len(batch[w]) = METRICS_BATCH_SIZE => wpc[w] = "flush_size"

\* C20 witness: a worker holds a full batch in its size-triggered flush while
\* the next event waits in the queue.
C20_Witness ==
    \E w \in Tasks :
        /\ wpc[w] = "flush_size"
        /\ Len(batch[w]) = METRICS_BATCH_SIZE
        /\ metrics_queue # <<>>

\* a flush of the worker loop (time or size trigger) ends in this step
LoopFlushEnds(w) ==
    /\ wpc[w] \in {"flush_time", "flush_size"}
    /\ wpc'[w] \notin {"flush_time", "flush_size"}

\* C21: the size trigger and the time trigger are mutually exclusive per loop
\* cycle: no iteration of the worker loop makes both a time-triggered and a
\* size-triggered flush, and the end of either flush resets last_flush.
C21_TriggersExclusivePerCycle ==
    /\ [](\A w \in Tasks : cycle_flushes[w] # {"time", "size"})
    /\ [][\A w \in Tasks : LoopFlushEnds(w) => since_flush'[w] = 0]_vars

\* C21 witness: right after a time-triggered flush, in the same iteration, the
\* worker waits on get() with an event in the queue; the same worker has made a
\* size-triggered flush in an earlier iteration.
C21_Witness ==
    \E w \in Tasks :
        /\ wpc[w] = "get"
        /\ cycle_flushes[w] = {"time"}
        /\ metrics_queue # <<>>
        /\ \E i \in DOMAIN flush_log : flush_log[i].by = w /\ flush_log[i].kind = "size"

\* the workers that are in their loop, between its first test and its exit
Consumers == {w \in Tasks : wpc[w] \in {"loop", "get", "flush_time", "flush_size"}}

\* C22: single consumer: whatever the sequence and interleaving of start()
\* and stop() calls, at most one worker task is in the consuming loop.
C22_SingleConsumer == Cardinality(Consumers) <= 1

\* the events of flush i are all persisted / none is persisted
AllPersisted(i) == Range(flush_log[i].events) \subseteq Range(persisted)

NonePersisted(i) == Range(flush_log[i].events) \cap Range(persisted) = {}

\* C23: no mid-flush cancellation: a flush in progress is never abandoned,
\* whether or not stop() has been called meanwhile: its flusher stays inside
\* _flush_batch with the same batch until the flush has ended in success or
\* failure, and only then does a worker end.
C23_NoMidFlushCancellation ==
    \A i \in DOMAIN flush_log :
        flush_log[i].result = "pending"
            => /\ InFlush(flush_log[i].by)
               /\ batch[flush_log[i].by] = flush_log[i].events
               /\ NonePersisted(i)

\* C23 witness: stop() was called and awaits the worker while the worker is
\* still in a flush of its loop, with every row executed and the commit ahead.
C23_Witness ==
    /\ lpc = "await_worker"
    /\ ~running
    /\ wpc[awaited] \in {"flush_time", "flush_size"}
    /\ tx[awaited] = Len(batch[awaited])

\* C24: shutdown terminates: once stop() has been called on a running
\* service (it awaits the worker or its drain flush), stop() eventually
\* returns; and when it has returned the worker it awaited has ended and no
\* flush is in progress.
C24_ShutdownTerminates ==
    /\ (lpc \in {"await_worker", "stop_flush"}) ~> (lpc = "stopped")
    /\ [](lpc = "stopped" =>
             /\ worker_task # 0 => wpc[worker_task] = "done"
             /\ \A i \in DOMAIN flush_log : flush_log[i].result # "pending")

\* C24 witness: stop() has returned after it awaited the worker through its
\* final flush and then made its own drain flush.
C24_Witness ==
    /\ lpc = "stopped"
    /\ wpc[worker_task] = "done"
    /\ \E i, j \in DOMAIN flush_log :
          /\ i < j
          /\ flush_log[i].kind = "final" /\ flush_log[i].result # "pending"
          /\ flush_log[j].kind = "drain" /\ flush_log[j].result # "pending"

\* C25: a flush is all-or-nothing: of a flush that succeeded every event is
\* persisted, of a flush that failed or is still in progress none is.
C25_FlushAllOrNothing ==
    \A i \in DOMAIN flush_log :
        IF flush_log[i].result = "ok" THEN AllPersisted(i) ELSE NonePersisted(i)

\* C25 witness: a batch of several events failed and left nothing behind,
\* another batch of several events was committed.
C25_Witness ==
    \E i, j \in DOMAIN flush_log :
        /\ flush_log[i].result = "failed" /\ Len(flush_log[i].events) >= 2
        /\ flush_log[j].result = "ok" /\ Len(flush_log[j].events) >= 2
        /\ NonePersisted(i)
        /\ AllPersisted(j)

\* C26: with the two-step check then increment and at most k = NumCallers
\* calls in flight at a time, the calls admitted in one window number at most
\* the ceiling plus k - 1.
C26_RaceBound ==
    /\ \A b \in MinuteBuckets : admitted.m[b] <= LimitPerMinute + (NumCallers - 1)
    /\ \A b \in HourBuckets : admitted.h[b] <= LimitPerHour + (NumCallers - 1)

\* C26 witness: racing callers have been admitted up to the bound, above the
\* minute ceiling.
C26_Witness ==
    /\ \A c \in Callers : Returned(c)
    /\ \E b \in MinuteBuckets : admitted.m[b] = LimitPerMinute + (NumCallers - 1)

\* C27: each window has a fresh counter: the first call of a minute window
\* after the first is admitted with minute_count = 1, whatever happened in the
\* minute before, unless the hour counter has reached its ceiling.
C27_FreshWindow ==
    (window_results # <<>> /\ window_results[1].mb > 0) =>
        \/ window_results[1].allowed /\ window_results[1].m = 1
        \/ ~window_results[1].allowed /\ window_results[1].h >= LimitPerHour

\* C27 witness: the minute ceiling was reached in the first minute and the
\* first call of the next minute was admitted with minute_count = 1.
C27_Witness ==
    /\ window_results # <<>>
    /\ window_results[1].mb = 1
    /\ window_results[1].allowed
    /\ window_results[1].m = 1
    /\ admitted.m[0] = LimitPerMinute

\* C28: the expiry is always armed: when no call is in progress, every
\* rate-limit counter that exists in the store has a time to live, whatever
\* calls and store failures came before.
C28_ExpiryAlwaysArmed ==
    (\A c \in Callers : cpc[c] = "idle") =>
        \A k \in Keys : store[k] > 0 => ttl[k] > 0

\* C29: the minute and the hour window are enforced independently: a
\* sequential call is rejected exactly when the minute count or the hour
\* count it read has reached its ceiling, the hour count it reports is the
\* number of calls admitted in the hour, and no hour window admits more than
\* the hour ceiling across its minute windows.
C29_WindowsIndependent ==
    /\ \A b \in HourBuckets : admitted.h[b] <= LimitPerHour
    /\ \A i \in DOMAIN window_results :
          IF window_results[i].allowed
          THEN /\ window_results[i].m - 1 < LimitPerMinute
               /\ window_results[i].h - 1 < LimitPerHour
          ELSE \/ window_results[i].m >= LimitPerMinute
               \/ window_results[i].h >= LimitPerHour
    /\ (cpc[SeqCaller] = "idle" /\ window_results # <<>>) =>
          window_results[Len(window_results)].h = admitted.h[ckeys[SeqCaller].h]

\* C29 witness: a call was rejected by the hour ceiling alone, in the second
\* minute of an hour whose first minute was used up to the minute ceiling.
C29_Witness ==
    /\ cpc[SeqCaller] = "idle"
    /\ window_results # <<>>
    /\ ~window_results[Len(window_results)].allowed
    /\ window_results[Len(window_results)].m < LimitPerMinute
    /\ window_results[Len(window_results)].h = LimitPerHour
    /\ admitted.m[0] = LimitPerMinute
    /\ admitted.m[1] > 0

\* the request of caller c was rejected by the limiter
Rejected(c) == ~req[c].exempt /\ req[c].pc = "done" /\ ~result[c].allowed

\* C30: the rate-limit middleware gates the request before any work: for a
\* path that is not exempt, call_next is invoked only if check_rate_limit
\* admitted the request; a rejected request gets a 429, runs no handler and
\* enqueues no telemetry event.
C30_GateBeforeWork ==
    \A c \in Callers :
        /\ (~req[c].exempt /\ req[c].ran) => (result[c].valid /\ result[c].allowed)
        /\ Rejected(c) => (req[c].status = 429 /\ ~req[c].ran /\ req[c].logged = 0)
        /\ req[c].logged > 0 => req[c].ran

\* C30 witness: one request was rejected with 429 and ran nothing, another
\* was admitted, ran the chat handler and enqueued its telemetry event.
C30_Witness ==
    \E c, d \in Callers :
        /\ Rejected(c) /\ req[c].status = 429 /\ ~req[c].ran
        /\ ~req[d].exempt /\ req[d].status = 200 /\ req[d].ran /\ req[d].logged = 1
        /\ result[d].allowed

\* the metrics chat_completion call number r handed to log_metric
HandedBy(r) == {i \in DOMAIN handed : handed[i].request_id = r}

Finished(p) == chat[p].pc \in {"returned", "raised"}

\* C31: each chat_completion call enqueues exactly one telemetry event, a
\* success event or an error event but never both: no two metrics handed to
\* log_metric carry the same request_id, and a call that has ended handed one.
C31_OneEventPerCall ==
    /\ \A i, j \in DOMAIN handed :
          handed[i].request_id = handed[j].request_id => i = j
    /\ \A p \in Producers :
          Finished(p) => Cardinality(HandedBy(chat[p].request_id)) = 1

\* the number of places of q that hold event e
Occurrences(q, e) == Cardinality({i \in DOMAIN q : q[i] = e})

\* the number of places an event is in: the queue, the local batch of a
\* flusher, the rows committed to the sink, the batches dropped by a failed flush
Places(e) ==
    LET inBatch(f) == Occurrences(batch[f], e)
        sum[n \in 0..MaxTasks] ==
            IF n = 0 THEN inBatch(0) ELSE sum[n - 1] + inBatch(n)
    IN Occurrences(metrics_queue, e) + sum[MaxTasks] + Occurrences(persisted, e)
       + (IF e \in Discarded THEN 1 ELSE 0)

\* C32: conservation of events: every event for which log_metric returned
\* True is in exactly one place: the queue, the local batch of a flusher (a
\* batch being flushed included), the persisted rows, or the events discarded
\* by a failed flush; none vanishes, none is duplicated.
C32_Conservation == \A e \in accepted : Places(e) = 1

\* C32 witness: accepted events are in all four places at once.
C32_Witness ==
    /\ metrics_queue # <<>>
    /\ \E f \in Flushers : batch[f] # <<>>
    /\ persisted # <<>>
    /\ Discarded # {}
    /\ Range(metrics_queue) \cup Range(persisted) \cup Discarded \subseteq accepted

\* worker w stands at the top of its loop with a batch that is due: the flush
\* interval has passed since its last flush
Due(w) ==
    wpc[w] = "loop" /\ batch[w] # <<>> /\ since_flush[w] >= METRICS_FLUSH_INTERVAL

\* worker w dequeues an event into an empty batch when the interval has passed
DequeuesLate(w) ==
    /\ wpc[w] = "get"
    /\ batch[w] = <<>>
    /\ since_flush[w] >= METRICS_FLUSH_INTERVAL
    /\ batch'[w] # <<>>

\* worker w enters _flush_batch with exactly the batch it holds
FlushesItsBatch(w) ==
    /\ wpc'[w] \in {"flush_time", "flush_final"}
    /\ Len(flush_log') = Len(flush_log) + 1
    /\ flush_log'[Len(flush_log')].by = w
    /\ flush_log'[Len(flush_log')].events = batch[w]

\* C33: the time trigger is measured from the last flush (or the worker's
\* start), not from the first pending event: an event dequeued into an empty
\* batch when at least METRICS_FLUSH_INTERVAL seconds have passed since the
\* last flush is flushed at the top of the next loop iteration (by the final
\* flush if the loop has ended), before any further event is dequeued; and a
\* time-triggered flush never comes less than METRICS_FLUSH_INTERVAL seconds
\* after the previous flush of its worker.
C33_TimeTriggerFromLastFlush ==
    /\ [][\A w \in Tasks : DequeuesLate(w) => Due(w)']_vars
    /\ [][\A w \in Tasks :
            Due(w) => /\ Len(metrics_queue') >= Len(metrics_queue)
                      /\ \/ wpc'[w] = wpc[w] /\ batch'[w] = batch[w]
                         \/ FlushesItsBatch(w)]_vars
    /\ [](\A i, j \in DOMAIN flush_log :
            (/\ i < j
             /\ flush_log[i].by = flush_log[j].by
             /\ flush_log[j].kind = "time"
             /\ flush_log[j].at < MaxTime)
                => flush_log[j].at - flush_log[i].at >= METRICS_FLUSH_INTERVAL)

\* C33 witness: an event enqueued when the interval since the worker's last
\* flush had already passed was flushed alone by the time trigger.
C33_Witness ==
    \E i, j \in DOMAIN flush_log :
        /\ i < j
        /\ flush_log[i].by = flush_log[j].by
        /\ flush_log[j].kind = "time"
        /\ flush_log[j].at < MaxTime
        /\ Len(flush_log[j].events) = 1
        /\ EnqAt(flush_log[j].events[1]) >= flush_log[i].at + METRICS_FLUSH_INTERVAL

\* caller c's INCR of its minute key (g = "minute") or hour key is answered
Increments(c, g) == cpc[c] = "incr_" \o g /\ cpc'[c] = "expire_" \o g

\* an admitted call of caller c returns
ReturnsAdmitted(c) ==
    cpc[c] = "expire_hour" /\ cpc'[c] = "idle" /\ result'[c].allowed

\* C34: when every store operation succeeds, an admitted check_rate_limit call
\* never over-reports: the minute_count and hour_count it returns are the
\* values read plus one, and these are at most the values of the store
\* counters right after the call's own increments.
C34_NeverOverReports ==
    [][\A c \in Callers :
          /\ Increments(c, "minute") => counts[c].m + 1 <= store'[MinuteKey(c)]
          /\ Increments(c, "hour") => counts[c].h + 1 <= store'[HourKey(c)]
          /\ ReturnsAdmitted(c) => /\ result'[c].m = counts[c].m + 1
                                   /\ result'[c].h = counts[c].h + 1]_vars

\* the minute and hour counters of the pair caller c calls for
OwnKeys(c) ==
    {Key(subject[c], "minute", b) : b \in MinuteBuckets}
        \cup {Key(subject[c], "hour", b) : b \in HourBuckets}

\* caller c takes a step of check_rate_limit
Steps(c) == cpc'[c] # cpc[c]

\* C35: subjects and endpoints are isolated: a check_rate_limit call for one
\* (user_id, endpoint) pair changes only that pair's minute and hour counters,
\* and calls for other pairs do not change what it returns: when every caller
\* calls for a pair of its own, the first call of each is admitted with
\* counts (1, 1) whatever the others did.
C35_PairsIsolated ==
    /\ [][\A c, d \in Callers :
            (subject[c] # subject[d] /\ Steps(c))
                => \A k \in OwnKeys(d) : store'[k] = store[k] /\ ttl'[k] = ttl[k]]_vars
    /\ []((calls = NumCallers /\ \A c \in Callers : Returned(c))
            => \A c \in Callers :
                  result[c].allowed /\ result[c].m = 1 /\ result[c].h = 1)

\* Redis deletes counter k in this step
Expires(k) == store[k] > 0 /\ store'[k] = 0

\* C36: a window counter never expires before its own window ends: the TTL
\* (one minute for minute keys, one hour for hour keys) is set after every
\* increment, and the key is built from the window the call started in, so
\* when Redis deletes a counter the window it counts has ended.
C36_NoExpiryInsideWindow ==
    [][\A pr \in Pairs :
          /\ \A b \in MinuteBuckets :
                Expires(Key(pr, "minute", b)) => MinuteBucket(clock') > b
          /\ \A b \in HourBuckets :
                Expires(Key(pr, "hour", b)) => HourBucket(clock') > b]_vars

\* C36 witness: calls were admitted in the first minute window and its
\* counter has expired since.
C36_Witness ==
    /\ admitted.m[0] > 0
    /\ store[Key(DefaultSubject, "minute", 0)] = 0
    /\ MinuteBucket(clock) > 0
    /\ \A c \in Callers : cpc[c] = "idle"

\* stop() has returned (under the lifespan start() is not called again)
Stopped == lpc = "stopped"

\* q extends p at its tail
Extends(q, p) == Len(q) >= Len(p) /\ SubSeq(q, 1, Len(p)) = p

\* C37: once stop() has returned and until start() is called again, no worker
\* is running and no sink write occurs: log_metric still accepts events, and
\* they stay in the queue without being part of any flush attempt.
C37_QuietAfterStop ==
    /\ [](Stopped => /\ \A w \in Tasks : wpc[w] \in {"none", "done"}
                     /\ \A f \in Flushers : ~InFlush(f) /\ tx[f] = 0
                     /\ \A e \in Range(metrics_queue) : Attempts(e) = 0)
    /\ [][Stopped => /\ flush_log' = flush_log
                     /\ persisted' = persisted
                     /\ Extends(metrics_queue', metrics_queue)
                     /\ Extends(enqueued', enqueued)
                     /\ accepted' = accepted \cup Range(metrics_queue')]_vars

\* C37 witness: after stop() returned, having drained and flushed the queue,
\* log_metric accepted events that now fill the queue.
C37_Witness ==
    /\ Stopped
    /\ \E i \in DOMAIN flush_log : flush_log[i].kind = "drain"
    /\ Len(metrics_queue) = METRICS_QUEUE_SIZE
    /\ Range(metrics_queue) \subseteq accepted \ accepted_at_stop

\* the largest batch a call of _flush_batch of this kind may carry
MaxBatch(kind) ==
    IF kind = "drain" THEN METRICS_QUEUE_SIZE ELSE METRICS_BATCH_SIZE

\* C38: every batch written to the sink is non-empty and size-bounded: no
\* transaction is opened for an empty batch, every batch flushed by the worker
\* loop has between 1 and METRICS_BATCH_SIZE events, and the drain batch of
\* shutdown has between 1 and METRICS_QUEUE_SIZE events.
C38_FlushedBatchesBounded ==
    /\ \A i \in DOMAIN flush_log :
          /\ Len(flush_log[i].events) >= 1
          /\ Len(flush_log[i].events) <= MaxBatch(flush_log[i].kind)
    /\ \A f \in Flushers :
          (InFlush(f) \/ tx[f] > 0)
              => batch[f] # <<>> /\ batch[f] = flush_log[CurrentFlush(f)].events

\* C38 witness: the worker has flushed a batch of METRICS_BATCH_SIZE events
\* by the size trigger and a single event otherwise, and stop() has flushed
\* a drain batch of one event.
C38_Witness ==
    \E i, j, k \in DOMAIN flush_log :
        /\ flush_log[i].kind = "size"
        /\ Len(flush_log[i].events) = METRICS_BATCH_SIZE
        /\ flush_log[j].kind \in {"time", "final"}
        /\ Len(flush_log[j].events) = 1
        /\ flush_log[k].kind = "drain"
        /\ Len(flush_log[k].events) = 1

\* a request of caller c for an exempt path enters the middleware
ExemptArrives(c) ==
    req[c].pc \in {"idle", "done"} /\ req'[c].pc # req[c].pc /\ req'[c].exempt

\* C39: requests to the exempt paths /health, /docs and /openapi.json never
\* consult or change the rate limiter: they leave every counter unchanged and
\* are always passed to the handler, also when the counters are at the ceiling.
C39_ExemptBypassesLimiter ==
    /\ [][\A c \in Callers :
            ExemptArrives(c) => /\ store' = store /\ ttl' = ttl
                                /\ cpc' = cpc /\ result' = result
                                /\ admitted' = admitted
                                /\ req'[c].ran]_vars
    /\ [](\A c \in Callers :
            req[c].exempt => /\ req[c].ran
                             /\ req[c].pc \in {"handler", "logging", "done"}
                             /\ req[c].status # 429
                             /\ cpc[c] = "idle")

\* C39 witness: a request to an exempt path was served while the minute
\* counter stood at the ceiling and another request was rejected with 429.
C39_Witness ==
    \E c, d \in Callers :
        /\ req[c].exempt /\ req[c].pc = "done" /\ req[c].status = 200
        /\ store[Key(DefaultSubject, "minute", 0)] >= RATE_LIMIT_PER_MINUTE
        /\ Rejected(d) /\ req[d].status = 429

\* C40: an explicit ceiling of 0 given to check_rate_limit is treated as not
\* given: under sequential calls inside one minute window with
\* limit_per_minute = 0 and limit_per_hour = 0 the calls are decided by the
\* configured defaults: the i-th call is admitted exactly when
\* i <= RATE_LIMIT_PER_MINUTE, with counts (i, i), rather than all rejected.
C40_ZeroCeilingIsDefault ==
    (limits = <<0, 0>> /\ InsideWindow) =>
        \A i \in DOMAIN window_results :
            /\ window_results[i].allowed <=> (i <= RATE_LIMIT_PER_MINUTE)
            /\ window_results[i].allowed =>
                  (window_results[i].m = i /\ window_results[i].h >= i)

\* C40 witness: with both ceilings given as 0 the 60th call of a window was
\* admitted and the 61st rejected.
C40_Witness ==
    /\ limits = <<0, 0>>
    /\ InsideWindow
    /\ Len(window_results) >= 61
    /\ window_results[1].allowed
    /\ window_results[60].allowed
    /\ ~window_results[61].allowed
====
